---- MODULE Spec2Model ----
(***************************************************************************)
(* A model of the Mini-JSON-Parser (src/main.cpp): the JSONValue tagged    *)
(* union, the recursive-descent JSONParser run as a small-step machine     *)
(* with an explicit call stack, and the printJSON pretty printer.          *)
(*                                                                         *)
(* Text is a sequence of one-character strings.  A JSONValue is a tuple    *)
(* whose first element is the tag of the std::variant alternative:         *)
(*   <<"Null">>, <<"Bool", b>>, <<"Number", d>>, <<"String", s>>,          *)
(*   <<"Array", seq of values>>, <<"Object", function key -> value>>.      *)
(* A double d is the pair <<neg, digits>> of its sign and of the decimal   *)
(* it was converted from, [m |-> mantissa, s |-> scale] for m / 10^s;      *)
(* faithful while a text has at most 15 significant digits.                *)
(***************************************************************************)
EXTENDS Integers, Sequences, FiniteSets, TLC

VARIABLES
    input,     \* JSONParser::input
    pos,       \* JSONParser::pos, 0-based as in the source
    stack,     \* the call stack of the running parse(), innermost frame last
    ret,       \* what the last returning call handed to its caller: <<its type, the value>>
    outcome,   \* "none" while parse() runs, then "value" or "error"
    result,    \* the JSONValue parse() returned
    error,     \* the exception parse() threw: [kind, what]
    valEnd,    \* history: pos when parse() received val from parseValue (line 43)
    seed,      \* the driver's datum: what the input text was made from
    first      \* the driver's record of an earlier parse of seed, <<>> when none

vars == <<input, pos, stack, ret, outcome, result, error, valEnd, seed, first>>

-----------------------------------------------------------------------------
(* Characters *)

QUOTE  == "\""
BSLASH == "\\"
NL     == "\n"
\* peek() and get() answer '\0' at the end of the input; no modelled text holds it
NUL    == "NUL"

Digits == {"0", "1", "2", "3", "4", "5", "6", "7", "8", "9"}

isdigit(c) == c \in Digits

isspace(c) == c \in {" ", "\t", NL, "\r", "\f"}

DigitVal(c) ==
    CASE c = "0" -> 0 [] c = "1" -> 1 [] c = "2" -> 2 [] c = "3" -> 3
      [] c = "4" -> 4 [] c = "5" -> 5 [] c = "6" -> 6 [] c = "7" -> 7
      [] c = "8" -> 8 [] c = "9" -> 9

DigitChar(d) ==
    CASE d = 0 -> "0" [] d = 1 -> "1" [] d = 2 -> "2" [] d = 3 -> "3"
      [] d = 4 -> "4" [] d = 5 -> "5" [] d = 6 -> "6" [] d = 7 -> "7"
      [] d = 8 -> "8" [] d = 9 -> "9"

-----------------------------------------------------------------------------
(* JSONValue *)

JNull      == <<"Null">>
JBool(b)   == <<"Bool", b>>
JNumber(d) == <<"Number", d>>
JString(s) == <<"String", s>>
JArray(a)  == <<"Array", a>>
JObject(o) == <<"Object", o>>

\* a default-constructed JSONObject: the function with the empty domain
EmptyObject == <<>>

\* obj.insert({key, v}): an entry already there stays
ObjectInsert(obj, key, v) ==
    [k \in (DOMAIN obj) \cup {key} |-> IF k \in DOMAIN obj THEN obj[k] ELSE v]

\* obj[key] = v on an unordered_map: insert, or overwrite the entry of key
ObjectAssign(obj, key, v) ==
    [k \in (DOMAIN obj) \cup {key} |-> IF k = key THEN v ELSE obj[k]]

-----------------------------------------------------------------------------
(* std::stod on the substring parseNumber captured: '-'? digit* ('.' digit* )? *)

RECURSIVE Pow10(_)
Pow10(n) == IF n = 0 THEN 1 ELSE 10 * Pow10(n - 1)

RECURSIVE DigitsValue(_)
DigitsValue(ds) ==
    IF ds = <<>> THEN 0
    ELSE 10 * DigitsValue(SubSeq(ds, 1, Len(ds) - 1)) + DigitVal(ds[Len(ds)])

\* one decimal for one double: no trailing zero in the fraction
RECURSIVE Normalize(_, _)
Normalize(m, s) ==
    IF s > 0 /\ m % 10 = 0 THEN Normalize(m \div 10, s - 1) ELSE [m |-> m, s |-> s]

\* strtod converts nothing when the text holds no digit
StodFails(txt) == \A i \in 1..Len(txt) : ~isdigit(txt[i])

Stod(txt) ==
    LET neg    == Len(txt) > 0 /\ txt[1] = "-"
        body   == IF neg THEN Tail(txt) ELSE txt
        dots   == {i \in 1..Len(body) : body[i] = "."}
        dot    == IF dots = {} THEN Len(body) + 1 ELSE CHOOSE i \in dots : TRUE
        intp   == SubSeq(body, 1, dot - 1)
        frac   == SubSeq(body, dot + 1, Len(body))
    IN  <<neg, Normalize(DigitsValue(intp \o frac), Len(frac))>>

-----------------------------------------------------------------------------
(* The call stack *)

Frame(proc, pc) ==
    [proc |-> proc, pc |-> pc, result |-> <<>>, start |-> 0,
     arr |-> <<>>, obj |-> EmptyObject, key |-> <<>>, val |-> JNull]

Top == stack[Len(stack)]

Running(proc) == outcome = "none" /\ stack # <<>> /\ Top.proc = proc

\* the stack with its innermost frame replaced
WithTop(f) == [stack EXCEPT ![Len(stack)] = f]

\* the innermost frame continues at pc after calling proc
Call(f, pc, proc) == Append(WithTop([f EXCEPT !.pc = pc]), Frame(proc, "enter"))

Popped == SubSeq(stack, 1, Len(stack) - 1)

size == Len(input)

\* char peek() const, line 59
peek == IF pos < size THEN input[pos + 1] ELSE NUL

\* char get(), line 63: the character, and pos after it
getChar == peek
getPos  == IF pos < size THEN pos + 1 ELSE pos

UNCHANGED_driver == UNCHANGED <<input, seed, first>>

\* throw std::runtime_error(what): nothing in the parser catches, parse() ends
Throw(kind, what, p) ==
    /\ pos' = p
    /\ stack' = <<>>
    /\ outcome' = "error"
    /\ error' = [kind |-> kind, what |-> what]
    /\ UNCHANGED <<ret, result, valEnd>>
    /\ UNCHANGED_driver

RuntimeError(what, p) == Throw("runtime_error", what, p)

\* return v to the caller
Return(v, p) ==
    /\ pos' = p
    /\ stack' = Popped
    /\ ret' = v
    /\ UNCHANGED <<outcome, result, error, valEnd>>
    /\ UNCHANGED_driver

\* continue in the same call with frame f
Step(f, p) ==
    /\ pos' = p
    /\ stack' = WithTop(f)
    /\ UNCHANGED <<ret, outcome, result, error, valEnd>>
    /\ UNCHANGED_driver

\* call proc and continue at pc when it returns
Invoke(f, pc, proc, p) ==
    /\ pos' = p
    /\ stack' = Call(f, pc, proc)
    /\ UNCHANGED <<ret, outcome, result, error, valEnd>>
    /\ UNCHANGED_driver

-----------------------------------------------------------------------------
(* JSONParser *)

\* a loop body that forgets to move on
SkipNone == Step(Top, pos)

\* pos++, line 56
SkipOne == Step(Top, pos + 1)

\* void skipWhitespace(), lines 54-57: one test of the loop condition
skipWhitespace ==
    /\ Running("skipWhitespace")
    /\ IF pos < size /\ isspace(input[pos + 1])
       THEN SkipOne
       ELSE Return(ret, pos)

\* a keyword test that looks at the first character only
CompareFirstChar(kw) == pos < size /\ input[pos + 1] = kw[1]

\* input.compare(pos, n, kw) == 0
CompareAt(kw) ==
    /\ pos + Len(kw) <= size
    /\ SubSeq(input, pos + 1, pos + Len(kw)) = kw

KwTrue  == <<"t", "r", "u", "e">>
KwFalse == <<"f", "a", "l", "s", "e">>
KwNull  == <<"n", "u", "l", "l">>

\* JSONValue parseValue(), lines 67-89
parseValue ==
    /\ Running("parseValue")
    /\ LET f == Top
           c == peek
       IN CASE f.pc = "enter" -> Invoke(f, "dispatch", "skipWhitespace", pos)
            [] f.pc = "dispatch" ->
                 IF c = QUOTE THEN Invoke(f, "string", "parseString", pos)
                 ELSE IF c = "{" THEN Invoke(f, "object", "parseObject", pos)
                 ELSE IF c = "[" THEN Invoke(f, "array", "parseArray", pos)
                 ELSE IF isdigit(c) \/ c = "-" THEN Invoke(f, "number", "parseNumber", pos)
                 ELSE IF CompareAt(KwTrue) THEN Return(JBool(TRUE), pos + 4)
                 ELSE IF CompareAt(KwFalse) THEN Return(JBool(FALSE), pos + 5)
                 ELSE IF CompareAt(KwNull) THEN Return(JNull, pos + 4)
                 ELSE RuntimeError("Invalid JSON value", pos)
            [] f.pc = "string" -> Return(JString(ret[2]), pos)
            [] f.pc = "object" -> Return(JObject(ret[2]), pos)
            [] f.pc = "array"  -> Return(JArray(ret[2]), pos)
            [] f.pc = "number" -> Return(JNumber(ret[2]), pos)

\* the character an escape stands for, lines 101-104; NUL: no such escape
Unescape(next) ==
    IF next \in {QUOTE, BSLASH, "/"} THEN next
    ELSE IF next = "n" THEN NL
    ELSE NUL

\* a parseString that rejects a string the input ends in
UnterminatedThrows(f) == RuntimeError("Unterminated string", pos)

\* the loop of parseString ends with the input: return result, lines 96 and 111
Unterminated(f) == Return(<<"String", f.result>>, pos)

\* std::string parseString(), lines 91-112
parseString ==
    /\ Running("parseString")
    /\ LET f == Top
       IN CASE f.pc = "enter" ->
                 IF getChar # QUOTE
                 THEN RuntimeError("Expected '\"'", getPos)
                 ELSE Step([f EXCEPT !.pc = "body", !.result = <<>>], getPos)
            [] f.pc = "body" ->
                 IF pos < size
                 THEN LET c == input[pos + 1]
                      IN IF c = QUOTE THEN Return(<<"String", f.result>>, pos + 1)
                         ELSE IF c = BSLASH
                         THEN LET next == IF pos + 1 < size THEN input[pos + 2] ELSE NUL
                                  p2   == IF pos + 1 < size THEN pos + 2 ELSE pos + 1
                              IN IF Unescape(next) # NUL
                                 THEN Step([f EXCEPT !.result = Append(@, Unescape(next))], p2)
                                 ELSE RuntimeError("Invalid escape sequence", p2)
                         ELSE Step([f EXCEPT !.result = Append(@, c)], pos + 1)
                 ELSE Unterminated(f)

\* double parseNumber(), lines 114-126
parseNumber ==
    /\ Running("parseNumber")
    /\ LET f == Top
       IN CASE f.pc = "enter" ->
                 Step([f EXCEPT !.pc = "int", !.start = pos],
                      IF peek = "-" THEN pos + 1 ELSE pos)
            [] f.pc = "int" ->
                 IF isdigit(peek) THEN Step(f, pos + 1)
                 ELSE IF peek = "." THEN Step([f EXCEPT !.pc = "frac"], pos + 1)
                 ELSE Step([f EXCEPT !.pc = "stod"], pos)
            [] f.pc = "frac" ->
                 IF isdigit(peek) THEN Step(f, pos + 1)
                 ELSE Step([f EXCEPT !.pc = "stod"], pos)
            [] f.pc = "stod" ->
                 LET txt == SubSeq(input, f.start + 1, pos)
                 IN IF StodFails(txt)
                    THEN Throw("invalid_argument", "stod", pos)
                    ELSE Return(<<"Number", Stod(txt)>>, pos)

\* JSONArray parseArray(), lines 128-154
parseArray ==
    /\ Running("parseArray")
    /\ LET f == Top
       IN CASE f.pc = "enter" ->
                 IF getChar # "["
                 THEN RuntimeError("Expected '['", getPos)
                 ELSE Invoke([f EXCEPT !.arr = <<>>], "first", "skipWhitespace", getPos)
            [] f.pc = "first" ->
                 IF peek = "]" THEN Return(<<"Array", f.arr>>, getPos)
                 ELSE Invoke(f, "push", "parseValue", pos)
            [] f.pc = "push" ->
                 Invoke([f EXCEPT !.arr = Append(@, ret)], "sep", "skipWhitespace", pos)
            [] f.pc = "sep" ->
                 IF peek = "]" THEN Return(<<"Array", f.arr>>, getPos)
                 ELSE IF getChar # "," THEN RuntimeError("Expected ',' in array", getPos)
                 ELSE Invoke(f, "push", "parseValue", getPos)

\* a parseObject that expects the colon right after the key
AfterKeyNoSkip(f) == Step([f EXCEPT !.key = ret[2], !.pc = "colon"], pos)

\* std::string key = parseString(); skipWhitespace(); lines 170-171
AfterKey(f) == Invoke([f EXCEPT !.key = ret[2]], "colon", "skipWhitespace", pos)

\* JSONObject parseObject(), lines 156-190
parseObject ==
    /\ Running("parseObject")
    /\ LET f == Top
       IN CASE f.pc = "enter" ->
                 IF getChar # "{"
                 THEN RuntimeError("Expected '{'", getPos)
                 ELSE Invoke([f EXCEPT !.obj = EmptyObject], "first", "skipWhitespace", getPos)
            [] f.pc = "first" ->
                 IF peek = "}" THEN Return(<<"Object", f.obj>>, getPos)
                 ELSE Invoke(f, "key", "skipWhitespace", pos)
            [] f.pc = "key" -> Invoke(f, "afterKey", "parseString", pos)
            [] f.pc = "afterKey" -> AfterKey(f)
            [] f.pc = "colon" ->
                 IF getChar # ":" THEN RuntimeError("Expected ':' after key", getPos)
                 ELSE Invoke(f, "value", "skipWhitespace", getPos)
            [] f.pc = "value" -> Invoke(f, "assign", "parseValue", pos)
            [] f.pc = "assign" ->
                 Invoke([f EXCEPT !.obj = ObjectAssign(@, f.key, ret)],
                        "sep", "skipWhitespace", pos)
            [] f.pc = "sep" ->
                 IF peek = "}" THEN Return(<<"Object", f.obj>>, getPos)
                 ELSE IF getChar # "," THEN RuntimeError("Expected ',' in object", getPos)
                 ELSE Invoke(f, "key", "skipWhitespace", getPos)

\* a parse() that never looks at what follows the value
TrailingCharactersIgnored == FALSE

\* line 45
TrailingCharacters == pos # size

\* JSONValue parse(), lines 41-48
parse ==
    /\ Running("parse")
    /\ LET f == Top
       IN CASE f.pc = "enter" -> Invoke(f, "value", "skipWhitespace", pos)
            [] f.pc = "value" -> Invoke(f, "ws", "parseValue", pos)
            [] f.pc = "ws" ->
                 /\ pos' = pos
                 /\ stack' = Call([f EXCEPT !.val = ret], "check", "skipWhitespace")
                 /\ valEnd' = pos
                 /\ UNCHANGED <<ret, outcome, result, error>>
                 /\ UNCHANGED_driver
            [] f.pc = "check" ->
                 IF TrailingCharacters
                 THEN RuntimeError("Unexpected trailing characters", pos)
                 ELSE /\ stack' = <<>>
                      /\ outcome' = "value"
                      /\ result' = f.val
                      /\ UNCHANGED <<pos, ret, error, valEnd>>
                      /\ UNCHANGED_driver

\* JSONParser parser(text), lines 38-39, about to run parse()
NoError == [kind |-> "none", what |-> ""]

Start(text) ==
    /\ input = text
    /\ pos = 0
    /\ stack = <<Frame("parse", "enter")>>
    /\ ret = JNull
    /\ outcome = "none"
    /\ result = JNull
    /\ error = NoError
    /\ valEnd = -1

\* the driver hands text to a fresh parser and calls parse()
Begin(text) ==
    /\ input' = text
    /\ pos' = 0
    /\ stack' = <<Frame("parse", "enter")>>
    /\ ret' = JNull
    /\ outcome' = "none"
    /\ result' = JNull
    /\ error' = NoError
    /\ valEnd' = -1

-----------------------------------------------------------------------------
(* std::cout << double: the default format, %g with precision 6 *)

Precision == 6

RECURSIVE NumDigits(_)
NumDigits(m) == IF m < 10 THEN 1 ELSE 1 + NumDigits(m \div 10)

RECURSIVE DigitsOf(_)
DigitsOf(m) == IF m < 10 THEN <<DigitChar(m)>> ELSE Append(DigitsOf(m \div 10), DigitChar(m % 10))

RECURSIVE StripZeros(_)
StripZeros(m) == IF m > 0 /\ m % 10 = 0 THEN StripZeros(m \div 10) ELSE m

RECURSIVE Zeros(_)
Zeros(n) == IF n <= 0 THEN <<>> ELSE <<"0">> \o Zeros(n - 1)

\* at least two digits of exponent
ExponentText(x) ==
    LET a == IF x < 0 THEN -x ELSE x
    IN <<"e", IF x < 0 THEN "-" ELSE "+">> \o (IF a < 10 THEN <<"0">> ELSE <<>>) \o DigitsOf(a)

FormatDouble(d) ==
    LET m    == d[2].m
        s    == d[2].s
        sign == IF d[1] THEN <<"-">> ELSE <<>>
        nd   == NumDigits(m)
        drop == IF nd > Precision THEN nd - Precision ELSE 0
        q0   == m \div Pow10(drop)
        r    == m % Pow10(drop)
        half == IF drop > 0 THEN 5 * Pow10(drop - 1) ELSE 1
        \* round to nearest, ties to even
        up   == drop > 0 /\ (r > half \/ (r = half /\ q0 % 2 = 1))
        q1   == IF up THEN q0 + 1 ELSE q0
        x    == nd - 1 - s + (IF NumDigits(q1) > NumDigits(q0) THEN 1 ELSE 0)
        q    == StripZeros(q1)
        ds   == DigitsOf(q)
        k    == Len(ds)
        \* the value is q * 10^e
        e    == x - (k - 1)
    IN IF m = 0 THEN sign \o <<"0">>
       ELSE IF x < -4 \/ x >= Precision
       THEN sign \o <<ds[1]>> \o (IF k > 1 THEN <<".">> \o Tail(ds) ELSE <<>>) \o ExponentText(x)
       ELSE IF e >= 0 THEN sign \o ds \o Zeros(e)
       ELSE IF k > -e
       THEN sign \o SubSeq(ds, 1, k + e) \o <<".">> \o SubSeq(ds, k + e + 1, k)
       ELSE sign \o <<"0", ".">> \o Zeros(-e - k) \o ds

-----------------------------------------------------------------------------
(* printJSON: the texts it can write for a value.  An unordered_map is      *)
(* walked in an order the build decides, so an object has one text per      *)
(* order of its keys.                                                       *)

RECURSIVE Spaces(_)
Spaces(n) == IF n <= 0 THEN <<>> ELSE <<" ">> \o Spaces(n - 1)

\* std::string(indent, ' '), lines 216, 222, 228, 235
Indentation(indent) == Spaces(indent)

\* a printer that puts a comma after every child
CommaAlways(i, n) == TRUE

\* i != arg.size() - 1, lines 218 and 231, i counted from 0
CommaAfter(i, n) == i # n - 1

\* the orders a range-for can walk the keys in, line 227
RECURSIVE Orders(_)
Orders(S) ==
    IF S = {} THEN {<<>>}
    ELSE UNION {{<<k>> \o o : o \in Orders(S \ {k})} : k \in S}

RECURSIVE printJSON(_, _)
RECURSIVE PrintChildren(_, _, _, _)

\* the loops of lines 215-221 and 227-234 from child i (0-based) on; a child
\* is <<what precedes its value on the line, the value>>
PrintChildren(children, i, n, indent) ==
    IF i >= n THEN {<<>>}
    ELSE { Indentation(indent + 2) \o children[i + 1][1] \o t
             \o (IF CommaAfter(i, n) THEN <<",">> ELSE <<>>) \o <<NL>> \o rest :
           t \in printJSON(children[i + 1][2], indent + 2),
           rest \in PrintChildren(children, i + 1, n, indent) }

\* void printJSON(const JSONValue& val, int indent = 0), lines 195-238
printJSON(val, indent) ==
    LET arg == val[2]
    IN CASE val[1] = "Null"   -> {<<"n", "u", "l", "l">>}
         [] val[1] = "Bool"   -> {IF arg THEN KwTrue ELSE KwFalse}
         [] val[1] = "Number" -> {FormatDouble(arg)}
         [] val[1] = "String" -> {<<QUOTE>> \o arg \o <<QUOTE>>}
         [] val[1] = "Array"  ->
              { <<"[", NL>> \o body \o Indentation(indent) \o <<"]">> :
                body \in PrintChildren([i \in 1..Len(arg) |-> <<<<>>, arg[i]>>],
                                       0, Len(arg), indent) }
         [] val[1] = "Object" ->
              UNION { { <<"{", NL>> \o body \o Indentation(indent) \o <<"}">> :
                        body \in PrintChildren(
                            [i \in 1..Len(o) |->
                                << <<QUOTE>> \o o[i] \o <<QUOTE, ":", " ">>, arg[o[i]] >>],
                            0, Len(o), indent) } :
                      o \in Orders(DOMAIN arg) }

\* the driver prints the tree it holds and parses the text again
Render ==
    /\ outcome = "idle"
    /\ \E text \in printJSON(seed, 0) : Begin(text)
    /\ UNCHANGED <<seed, first>>

ParserStep ==
    \/ parse
    \/ skipWhitespace
    \/ parseValue
    \/ parseString
    \/ parseNumber
    \/ parseArray
    \/ parseObject

Done == outcome # "none"

-----------------------------------------------------------------------------
(* Arbitrary text: every concatenation of at most MaxToks lexemes *)

MaxToks == 3

Lexemes ==
    { <<"{">>, <<"}">>, <<"[">>, <<"]">>, <<",">>, <<":">>, <<" ">>,
      <<QUOTE>>, <<BSLASH>>, <<"/">>, <<"n">>, <<"e">>, <<"-">>, <<".">>, <<"1">>,
      KwTrue, KwFalse, KwNull }

RECURSIVE Texts(_)
Texts(n) ==
    IF n = 0 THEN {<<>>}
    ELSE LET shorter == Texts(n - 1)
         IN shorter \cup {t \o l : t \in shorter, l \in Lexemes}

Init ==
    /\ \E t \in Texts(MaxToks) : Start(t)
    /\ seed = <<>>
    /\ first = <<>>

Next == ParserStep

Spec == Init /\ [][Next]_vars

-----------------------------------------------------------------------------
(* Round trip: the driver holds a tree, prints it and parses the text *)

MaxNodes == 4

Num(neg, m, s) == JNumber(<<neg, [m |-> m, s |-> s]>>)

Str(s) == JString(s)

\* the leaves every tree is built from
Leaves ==
    { JBool(TRUE), Num(FALSE, 1, 0), Num(FALSE, 2, 0), Str(<<"a">>),
      JArray(<<>>), JObject(EmptyObject) }

Keys == { <<"x">> }

RECURSIVE NodeCount(_)
RECURSIVE SumNodes(_, _)
NodeCount(v) ==
    CASE v[1] = "Array"  -> 1 + SumNodes([i \in 1..Len(v[2]) |-> v[2][i]], Len(v[2]))
      [] v[1] = "Object" ->
            LET o == CHOOSE o \in Orders(DOMAIN v[2]) : TRUE
            IN 1 + SumNodes([i \in 1..Len(o) |-> v[2][o[i]]], Len(o))
      [] OTHER -> 1
SumNodes(vs, n) == IF n = 0 THEN 0 ELSE NodeCount(vs[n]) + SumNodes(vs, n - 1)

\* the trees of at most n nodes, and the sequences of trees of at most n nodes in all
RECURSIVE Trees(_)
RECURSIVE Forests(_)
Forests(n) ==
    {<<>>} \cup UNION { { <<t>> \o f : f \in Forests(n - NodeCount(t)) } : t \in Trees(n) }

Trees(n) ==
    IF n <= 0 THEN {}
    ELSE Leaves
         \cup { JArray(f) : f \in Forests(n - 1) \ {<<>>} }
         \cup UNION { { JObject([k \in {o[i] : i \in 1..Len(f)} |->
                                    f[CHOOSE i \in 1..Len(f) : o[i] = k]]) :
                         o \in Orders(Keys) } :
                       f \in { g \in Forests(n - 1) : Len(g) \in 1..Cardinality(Keys) } }

\* scalars the printer has something to say about
Specials ==
    { JNull, JBool(FALSE),
      Num(TRUE, 125, 1), Num(TRUE, 0, 0), Num(FALSE, 5, 1), Num(FALSE, 123456, 0),
      Num(FALSE, 1000000, 0), Num(FALSE, 1234567, 0), Num(FALSE, 1, 5), Num(FALSE, 1, 4),
      Str(<<>>), Str(<<"a", " ", "b">>), Str(<<"a", NL, "b">>),
      Str(<<QUOTE>>), Str(<<BSLASH>>), Str(<<"a", BSLASH, "n">>) }

\* objects of two keys, which the printer may write in either order
Object2(a, b) == JObject([k \in {<<"x">>, <<"y">>} |-> IF k = <<"x">> THEN a ELSE b])

TwoKeyed ==
    LET vs == Leaves \cup {JNull, JArray(<<Num(FALSE, 1, 0), Num(FALSE, 2, 0)>>)}
    IN { Object2(a, b) : a \in vs, b \in vs }

RoundTripValues ==
    Trees(MaxNodes) \cup TwoKeyed \cup Specials \cup { JArray(<<v>>) : v \in Specials }
        \cup { JObject([k \in {<<"x">>} |-> v]) : v \in Specials }

InitRoundTrip ==
    /\ seed \in RoundTripValues
    /\ input = <<>>
    /\ pos = 0
    /\ stack = <<>>
    /\ ret = JNull
    /\ outcome = "idle"
    /\ result = JNull
    /\ error = NoError
    /\ valEnd = -1
    /\ first = <<>>

NextRoundTrip == Render \/ ParserStep

SpecRoundTrip == InitRoundTrip /\ [][NextRoundTrip]_vars

\* C1: parsing the text printJSON wrote for a tree succeeds and yields that tree.
RoundTrip == (Done /\ outcome # "idle") => (outcome = "value" /\ result = seed)

-----------------------------------------------------------------------------
(* Objects that repeat keys: the driver writes the members one after another *)

MaxMembers == 3

\* a key as written and as decoded: \/ and / are the same key
KeyForms ==
    { [text |-> <<"a">>, key |-> <<"a">>],
      [text |-> <<"/">>, key |-> <<"/">>],
      [text |-> <<BSLASH, "/">>, key |-> <<"/">>] }

ValueForms ==
    { [text |-> <<"1">>, val |-> Num(FALSE, 1, 0)],
      [text |-> <<"2">>, val |-> Num(FALSE, 2, 0)],
      [text |-> <<"[", "]">>, val |-> JArray(<<>>)] }

MemberLists == UNION { [1..n -> KeyForms \X ValueForms] : n \in 0..MaxMembers }

RECURSIVE MembersText(_, _)
MembersText(ms, i) ==
    IF i > Len(ms) THEN <<>>
    ELSE (IF i > 1 THEN <<",">> ELSE <<>>)
           \o <<QUOTE>> \o ms[i][1].text \o <<QUOTE, ":">> \o ms[i][2].text
           \o MembersText(ms, i + 1)

ObjectText(ms) == <<"{">> \o MembersText(ms, 1) \o <<"}">>

InitDup ==
    /\ seed \in MemberLists
    /\ Start(ObjectText(seed))
    /\ first = <<>>

SpecDup == InitDup /\ [][Next]_vars

\* C5: a parsed object has exactly one entry per distinct key of the text, each
\* holding the value of the key's last occurrence; a repeated key is no error.
DuplicateKeys ==
    Done =>
        /\ outcome = "value"
        /\ result[1] = "Object"
        /\ DOMAIN result[2] = {seed[i][1].key : i \in 1..Len(seed)}
        /\ \A i \in 1..Len(seed) :
              (\A j \in (i + 1)..Len(seed) : seed[j][1].key # seed[i][1].key)
                  => result[2][seed[i][1].key] = seed[i][2].val

\* a key written twice with different values, parsed to the end
DuplicateKeysWitness ==
    /\ outcome = "value"
    /\ \E i, j \in 1..Len(seed) :
          i < j /\ seed[i][1].key = seed[j][1].key /\ seed[i][2].val # seed[j][2].val

-----------------------------------------------------------------------------
(* Whitespace: the driver parses a text, then the text with one whitespace *)
(* character put in at some offset                                          *)

\* the documents of at most n values, each with the number of its values
Atoms ==
    { [text |-> <<"1">>, nodes |-> 1],
      [text |-> KwTrue, nodes |-> 1],
      [text |-> <<QUOTE, "a", " ", BSLASH, QUOTE, QUOTE>>, nodes |-> 1] }

RECURSIVE Docs(_)
RECURSIVE DocLists(_)
DocLists(n) ==
    {<<>>} \cup UNION { { <<d>> \o l : l \in DocLists(n - d.nodes) } : d \in Docs(n) }

RECURSIVE Joined(_, _, _)
\* the texts of ds from the ith on, each after lead, with commas between
Joined(ds, i, lead) ==
    IF i > Len(ds) THEN <<>>
    ELSE (IF i > 1 THEN <<",">> ELSE <<>>) \o lead \o ds[i].text \o Joined(ds, i + 1, lead)

RECURSIVE TotalNodes(_, _)
TotalNodes(ds, n) == IF n = 0 THEN 0 ELSE ds[n].nodes + TotalNodes(ds, n - 1)

Docs(n) ==
    IF n <= 0 THEN {}
    ELSE Atoms
         \cup { [text |-> <<"[">> \o Joined(l, 1, <<>>) \o <<"]">>,
                 nodes |-> 1 + TotalNodes(l, Len(l))] : l \in DocLists(n - 1) }
         \cup { [text |-> <<"{">> \o Joined(l, 1, <<QUOTE, "k", QUOTE, ":">>) \o <<"}">>,
                 nodes |-> 1 + TotalNodes(l, Len(l))] : l \in DocLists(n - 1) }

MaxValues == 3

\* texts with whitespace already in them, and texts the grammar does not derive
OddTexts ==
    { <<" ", "[", " ", "1", " ", ",", NL, "1", " ", "]", " ">>,
      <<"{", " ", QUOTE, "k", QUOTE, " ", ":", " ", "1", " ", ",", " ",
        QUOTE, "k", QUOTE, ":", "[", "]", " ", "}">>,
      <<QUOTE, "a">>, <<QUOTE, "a", BSLASH>>, <<"1", ".">>, <<"-", "1", ".", "5">>,
      <<"[", "1", ",", "]">>, <<"[", "1", "1", "]">>, <<"{", QUOTE, "k", QUOTE, "1", "}">>,
      <<"t", "r", "u", "e", "n">>, <<"-">>, <<"{", "1", "}">>, <<"[", QUOTE, "a">> }

BaseTexts == { d.text : d \in Docs(MaxValues) } \cup OddTexts

WsChars == {" ", NL}

Insert(t, p, c) == SubSeq(t, 1, p) \o <<c>> \o SubSeq(t, p + 1, Len(t))

InitWs ==
    /\ seed \in BaseTexts
    /\ Start(seed)
    /\ first = <<>>

\* the driver keeps what parse() gave and parses the text with c put in at offset p
Reparse ==
    /\ Done
    /\ first = <<>>
    /\ \E p \in 0..Len(seed), c \in WsChars :
          /\ first' = [outcome |-> outcome, result |-> result, at |-> p]
          /\ Begin(Insert(seed, p, c))
    /\ UNCHANGED seed

NextWs == Reparse \/ ParserStep

SpecWs == InitWs /\ [][NextWs]_vars

\* where a reader of the grammar stands after the first p characters of t:
\* "out" of any string, "in" a string body, or after a backslash in one
RECURSIVE LexState(_, _)
LexState(t, p) ==
    IF p = 0 THEN "out"
    ELSE LET before == LexState(t, p - 1)
             c      == t[p]
         IN CASE before = "out" -> IF c = QUOTE THEN "in" ELSE "out"
              [] before = "in"  -> IF c = QUOTE THEN "out"
                                   ELSE IF c = BSLASH THEN "esc" ELSE "in"
              [] before = "esc" -> "in"

\* a character of a number or of a keyword
AtomChar(c) == c \notin {"[", "]", "{", "}", ",", ":", QUOTE} /\ ~isspace(c)

\* offset p of t lies within a number or a keyword
SplitsToken(t, p) == p >= 1 /\ p < Len(t) /\ AtomChar(t[p]) /\ AtomChar(t[p + 1])

\* C6: whitespace put in or taken out where the grammar allows it (anywhere
\* but inside a string body, a number or a keyword) leaves a successful parse
\* successful, with the same Value.
WhitespaceInsensitive ==
    (Done /\ first # <<>>) =>
        LET p      == first.at
            before == first.outcome = "value"
            after  == outcome = "value"
        IN LexState(seed, p) = "out" =>
              \* putting it in
              /\ (before /\ ~SplitsToken(seed, p)) => (after /\ result = first.result)
              \* taking it out
              /\ after => (before /\ first.result = result)

\* a space before the colon of an object member, both texts parsed to an object
WhitespaceInsensitiveWitness ==
    /\ Done
    /\ first # <<>>
    /\ seed = <<"{", QUOTE, "k", QUOTE, ":", "1", "}">>
    /\ first.at = 4
    /\ outcome = "value"
    /\ result = first.result

-----------------------------------------------------------------------------
(* Termination: parse() runs to its end on whole and on cut-off documents *)

InitLive ==
    /\ \E t \in BaseTexts : \E n \in 0..Len(t) : Start(SubSeq(t, 1, n))
    /\ seed = <<>>
    /\ first = <<>>

\* parse() is sequential code: whenever it has a next step it takes it
SpecLive == InitLive /\ [][Next]_vars /\ WF_vars(Next)

\* the steps that go round a loop: <<function, from, to>>
LoopEdges ==
    { <<"skipWhitespace", "enter", "enter">>, <<"parseString", "body", "body">>,
      <<"parseNumber", "int", "int">>, <<"parseNumber", "frac", "frac">>,
      <<"parseArray", "sep", "push">>, <<"parseObject", "sep", "key">> }

\* this step starts another iteration of the loop the innermost call is in
Looping ==
    LET i == Len(stack)
    IN /\ outcome = "none"
       /\ i >= 1
       /\ outcome' = "none"
       /\ Len(stack') >= i
       /\ <<stack[i].proc, stack[i].pc, stack'[i].pc>> \in LoopEdges

\* C10: parse() finishes on every input, and every step that starts another
\* iteration of a loop has moved the cursor forward.
Termination == (<>Done) /\ [][Looping => pos' > pos]_vars

\* an array of two elements parsed to the end: its loop went round
TerminationWitness ==
    /\ outcome = "value"
    /\ result[1] = "Array"
    /\ Len(result[2]) >= 2

-----------------------------------------------------------------------------
(* The layout of a printed text, read line by line *)

RECURSIVE SplitLines(_, _)
\* the lines of t, cur being the line read so far
SplitLines(t, cur) ==
    IF t = <<>> THEN <<cur>>
    ELSE IF Head(t) = NL THEN <<cur>> \o SplitLines(Tail(t), <<>>)
    ELSE SplitLines(Tail(t), Append(cur, Head(t)))

RECURSIVE LeadingSpaces(_)
LeadingSpaces(l) == IF l # <<>> /\ Head(l) = " " THEN 1 + LeadingSpaces(Tail(l)) ELSE 0

HasComma(l) == l # <<>> /\ l[Len(l)] = ","

\* the line without its indentation and its comma
Core(l) ==
    SubSeq(l, LeadingSpaces(l) + 1, IF HasComma(l) THEN Len(l) - 1 ELSE Len(l))

IsOpener(l) == Core(l) # <<>> /\ Core(l)[Len(Core(l))] \in {"[", "{"}

IsCloser(l) == Core(l) \in {<<"]">>, <<"}">>}

\* the nesting level line i is written at
RECURSIVE Level(_, _)
Level(lines, i) ==
    IF i = 0 THEN 0
    ELSE LET before == IF i = 1 THEN 0
                       ELSE Level(lines, i - 1) + (IF IsOpener(lines[i - 1]) THEN 1 ELSE 0)
         IN before - (IF IsCloser(lines[i]) THEN 1 ELSE 0)

RECURSIVE LineCount(_)
RECURSIVE SumLines(_, _)
\* a scalar takes one line, a container its two brackets' lines and its children's
LineCount(v) ==
    CASE v[1] = "Array"  -> 2 + SumLines([i \in 1..Len(v[2]) |-> v[2][i]], Len(v[2]))
      [] v[1] = "Object" ->
            LET o == CHOOSE o \in Orders(DOMAIN v[2]) : TRUE
            IN 2 + SumLines([i \in 1..Len(o) |-> v[2][o[i]]], Len(o))
      [] OTHER -> 1
SumLines(vs, n) == IF n = 0 THEN 0 ELSE LineCount(vs[n]) + SumLines(vs, n - 1)

LayoutChars == {NL, QUOTE, BSLASH, "[", "]", "{", "}", ",", ":"}

\* no string and no key of v holds a character the layout is made of
RECURSIVE Plain(_)
Plain(v) ==
    CASE v[1] = "String" -> \A i \in 1..Len(v[2]) : v[2][i] \notin LayoutChars
      [] v[1] = "Array"  -> \A i \in 1..Len(v[2]) : Plain(v[2][i])
      [] v[1] = "Object" ->
            \A k \in DOMAIN v[2] :
                (\A i \in 1..Len(k) : k[i] \notin LayoutChars) /\ Plain(v[2][k])
      [] OTHER -> TRUE

IsContainer(v) == v[1] \in {"Array", "Object"}

Shape(v, text) ==
    LET lines == SplitLines(text, <<>>)
        n     == Len(lines)
    IN /\ n = LineCount(v)
       \* no trailing newline, no empty line
       /\ \A i \in 1..n : Core(lines[i]) # <<>>
       \* two spaces per level: children at n + 2, the closing bracket at n
       /\ \A i \in 1..n : LeadingSpaces(lines[i]) = 2 * Level(lines, i)
       \* a comma after every child but the last, none after an opening bracket
       /\ \A i \in 1..n :
             HasComma(lines[i]) <=>
                (i < n /\ ~IsOpener(lines[i]) /\ ~IsCloser(lines[i + 1]))
       \* a container opens on the first line and closes on the last
       /\ IsContainer(v) =>
             /\ lines[1] = <<IF v[1] = "Array" THEN "[" ELSE "{">>
             /\ lines[n] = <<IF v[1] = "Array" THEN "]" ELSE "}">>
       /\ Cardinality({i \in 1..n : IsOpener(lines[i])})
             = Cardinality({i \in 1..n : IsCloser(lines[i])})

\* {"x":[1,2]}
Golden == JObject([k \in {<<"x">>} |-> JArray(<<Num(FALSE, 1, 0), Num(FALSE, 2, 0)>>)])

GoldenText ==
    <<"{", NL>>
      \o <<" ", " ", QUOTE, "x", QUOTE, ":", " ", "[", NL>>
      \o <<" ", " ", " ", " ", "1", ",", NL>>
      \o <<" ", " ", " ", " ", "2", NL>>
      \o <<" ", " ", "]", NL>>
      \o <<"}">>

\* printJSON has just written input
Rendered == outcome = "none" /\ pos = 0 /\ Len(stack) = 1 /\ Top.pc = "enter"

\* C7: printJSON writes a container as its opening bracket and a newline, each
\* child on a line of its own two spaces deeper, a comma after every child but
\* the last, and the closing bracket on a line of its own at the container's
\* indentation, with no trailing newline; {"x":[1,2]} gives the six lines named.
PrettyPrintShape ==
    (Rendered /\ Plain(seed)) =>
        (Shape(seed, input) /\ (seed = Golden => input = GoldenText))

PrettyPrintShapeWitness == Rendered /\ seed = Golden /\ input = GoldenText

-----------------------------------------------------------------------------
(* Reading a text as the grammar of the document does, apart from the parser *)

RECURSIVE DropSpace(_)
DropSpace(t) == IF t # <<>> /\ isspace(Head(t)) THEN DropSpace(Tail(t)) ELSE t

RECURSIVE DropSpaceEnd(_)
DropSpaceEnd(t) ==
    IF t # <<>> /\ isspace(t[Len(t)]) THEN DropSpaceEnd(SubSeq(t, 1, Len(t) - 1)) ELSE t

Trim(t) == DropSpaceEnd(DropSpace(t))

AllDigits(t) == t # <<>> /\ \A i \in 1..Len(t) : isdigit(t[i])

\* number := '-'? digit+ ('.' digit+)?
IsNumberText(t) ==
    LET b == IF t # <<>> /\ t[1] = "-" THEN Tail(t) ELSE t
    IN \E k \in 1..Len(b) :
          /\ AllDigits(SubSeq(b, 1, k))
          /\ \/ k = Len(b)
             \/ /\ k + 2 <= Len(b)
                /\ b[k + 1] = "."
                /\ AllDigits(SubSeq(b, k + 2, Len(b)))

\* the body of a string from its first character on: how it ends and what it decodes to
RECURSIVE ScanBody(_, _, _)
ScanBody(body, i, acc) ==
    IF i > Len(body) THEN [status |-> "open", text |-> acc]
    ELSE IF body[i] = QUOTE THEN [status |-> "closed", text |-> acc]
    ELSE IF body[i] # BSLASH THEN ScanBody(body, i + 1, Append(acc, body[i]))
    ELSE IF i = Len(body) THEN [status |-> "dangling", text |-> acc]
    ELSE IF body[i + 1] \in {QUOTE, BSLASH, "/"}
         THEN ScanBody(body, i + 2, Append(acc, body[i + 1]))
    ELSE IF body[i + 1] = "n" THEN ScanBody(body, i + 2, Append(acc, NL))
    ELSE [status |-> "badescape", text |-> acc]

\* the document is a string: after leading whitespace comes a quote
IsStringDocument == DropSpace(input) # <<>> /\ Head(DropSpace(input)) = QUOTE

DocumentBody == ScanBody(Tail(DropSpace(input)), 1, <<>>)

-----------------------------------------------------------------------------
(* Claims settled under Spec *)

RestIsSpace(from) == \A i \in (from + 1)..size : isspace(input[i])

\* C2: once parseValue has handed parse() a complete value (at offset valEnd),
\* parse() returns that value if every remaining character is whitespace, and
\* otherwise throws "Unexpected trailing characters" and returns no value.
TrailingInput ==
    (Done /\ valEnd >= 0) =>
        IF RestIsSpace(valEnd)
        THEN outcome = "value" /\ result = ret
        ELSE /\ outcome = "error"
             /\ error = [kind |-> "runtime_error", what |-> "Unexpected trailing characters"]
             /\ result = JNull

\* "truen": true is consumed, n is left over
TrailingInputWitness ==
    /\ Done
    /\ input = KwTrue \o <<"n">>
    /\ valEnd = 4
    /\ error.what = "Unexpected trailing characters"

\* C3: a successful parse returns a Number only for a text of the form
\* '-'? digit+ ('.' digit+)? (whitespace around it aside).
NumberGrammar ==
    (outcome = "value" /\ result[1] = "Number") => IsNumberText(Trim(input))

FixedMessages ==
    { "Unexpected trailing characters", "Invalid JSON value", "Expected '\"'",
      "Expected '['", "Expected '{'", "Invalid escape sequence",
      "Expected ':' after key", "Expected ',' in array", "Expected ',' in object" }

\* C4: every failure of parse() is a runtime_error carrying one of the fixed messages.
ClosedErrorSet ==
    outcome = "error" => (error.kind = "runtime_error" /\ error.what \in FixedMessages)

\* C8 as claimed: whenever a string document runs out of input before its closing
\* quote, with no bad escape before that, parse() succeeds with the characters
\* decoded so far.
UnterminatedNeverFails ==
    (Done /\ IsStringDocument /\ DocumentBody.status \in {"open", "dangling"}) =>
        (outcome = "value" /\ result = JString(DocumentBody.text))

\* C8 as amended: a string document that runs out of input at the loop test
\* succeeds with the characters decoded so far; one that runs out right after a
\* backslash fails with "Invalid escape sequence".
UnterminatedString ==
    (Done /\ IsStringDocument) =>
        /\ DocumentBody.status = "open" =>
              (outcome = "value" /\ result = JString(DocumentBody.text))
        /\ DocumentBody.status = "dangling" =>
              (outcome = "error" /\ error.what = "Invalid escape sequence")

\* a quote, an escaped n, no closing quote: parse() returns the newline
UnterminatedStringWitness ==
    /\ Done
    /\ input = <<QUOTE, BSLASH, "n">>
    /\ outcome = "value"
    /\ result = JString(<<NL>>)

\* C9: the cursor stays within 0..size and no step moves it backwards.
CursorInvariant == [](pos \in 0..size) /\ [][pos' >= pos]_vars

\* the keyword match pos += 4 took the cursor to the very end of "true"
CursorInvariantWitness ==
    /\ input = KwTrue
    /\ pos = size
    /\ stack # <<>>
    /\ Top.proc = "parse"

====
